---- MODULE Spec2Model ----
(***************************************************************************)
(* Attendance & geofencing engine of attendance-backend.                   *)
(*                                                                         *)
(* The attendance ledger (table attendances), the location directory       *)
(* (table attendance_locations) and the server clock are the state.  The   *)
(* operations are AttendanceService.CheckIn and AttendanceService.CheckOut *)
(* with the helpers they call.  Coordinates are integer micro-degrees and  *)
(* all points lie on the meridian of the fences (one longitude), where the *)
(* haversine formula reduces to earthRadius * |dLat| in radians.  Stored   *)
(* distances are hundredths of a metre (column DECIMAL(10,2)).             *)
(***************************************************************************)
EXTENDS Integers, Sequences, FiniteSets, TLC

VARIABLES attendances, locations, now, reqs, probe,
          users, userSchedules, locationSeq

vars == <<attendances, locations, now, reqs, probe,
          users, userSchedules, locationSeq>>

\* the tables and sequences that the attendance calls never write
directory == <<users, userSchedules, locationSeq>>

(***************************************************************************)
(* Bounds of the model.                                                    *)
(***************************************************************************)
MaxUser == 2
MaxTime == 4
MaxRows == 2
MaxReq == 2

Users == 1..MaxUser

(***************************************************************************)
(* The clock.  time.Now() is sampled at the hours ClockHours of each day,  *)
(* MaxTime readings in all; Hours is the range of time.Time.Hour().        *)
(***************************************************************************)
Hours == 0..23
ClockHours == <<8, 11, 13>>

\* the k-th clock reading
Reading(k) ==
    [day |-> ((k - 1) \div Len(ClockHours)) + 1,
     hour |-> ClockHours[((k - 1) % Len(ClockHours)) + 1]]

Times == {Reading(k) : k \in 1..MaxTime}
Days == {t.day : t \in Times}

\* the clock reading that follows t
NextTime(t) ==
    IF \E k \in 1..Len(ClockHours) : ClockHours[k] > t.hour
    THEN [day |-> t.day,
          hour |-> ClockHours[CHOOSE k \in 1..Len(ClockHours) :
                      /\ ClockHours[k] > t.hour
                      /\ \A j \in 1..Len(ClockHours) :
                            ClockHours[j] > t.hour => ClockHours[k] <= ClockHours[j]]]
    ELSE [day |-> t.day + 1, hour |-> ClockHours[1]]

\* time.Now().Format("2006-01-02") and DATE(check_in_time)
DateOf(t) == t.day

(***************************************************************************)
(* Error values: the messages of the errors the services return.           *)
(***************************************************************************)
NoError == "nil"
ErrAlreadyCheckedIn == "already checked in today"
ErrOutsideCheckIn == "you are outside the allowed radius"
ErrOutsideCheckOut == "you are outside the allowed radius for check-out"
ErrNoRecordToday == "no attendance record found for today"
ErrAlreadyCheckedOut == "already checked out today"
ErrLocationNotFound == "location not found"
ErrLocationInactive == "location is not active"
\* any error the gorm handle returns other than ErrRecordNotFound
ErrStorage == "storage error"

(***************************************************************************)
(* Request inputs.                                                         *)
(***************************************************************************)
\* a check-in request body
CheckInReq(locationID, latitude, notes, photoURL) ==
    [LocationID |-> locationID, Latitude |-> latitude, Longitude |-> 106816700,
     PhotoURL |-> photoURL, Notes |-> notes]

\* the check-in requests the clients send: 30 m from fence 1; 31 m from
\* fence 2; 80 m from fence 1; the centre of the inactive fence 3; the
\* centre of a fence that does not exist
CheckInRequests ==
    {CheckInReq(1, -6199730, <<"in">>, "selfie.jpg"),
     CheckInReq(2, -6199280, <<>>, ""),
     CheckInReq(1, -6199280, <<"in">>, ""),
     CheckInReq(3, -6200000, <<>>, ""),
     CheckInReq(4, -6200000, <<>>, "")}

\* a check-out request body
CheckOutReq(latitude, notes) ==
    [Latitude |-> latitude, Longitude |-> 106816700, Notes |-> notes]

CheckOutRequests ==
    {CheckOutReq(-6199730, <<"out">>),
     CheckOutReq(-6199280, <<>>)}

\* which storage round trip of a call fails, if any
CheckInFailures == {"none", "count", "location", "create"}
CheckOutFailures == {"none", "first", "location", "save"}

(***************************************************************************)
(* Geo utility.                                                            *)
(***************************************************************************)
earthRadius == 6371000

\* the distance with the sign of the latitude difference kept
CalculateDistance_Signed(lat1, lon1, lat2, lon2) ==
    [num |-> (earthRadius \div 1000) * 71 * (lat2 - lat1),
     den |-> 36 * 113 * 1000]

\* CalculateDistance for lon1 = lon2 (dLon = 0): a = sin^2(dLat/2), so
\* c = |dLat| in radians and the distance is earthRadius * |dLat| * Pi / 180.
\* With latitudes in micro-degrees and math.Pi as 355/113 the result is the
\* rational num/den metres.
CalculateDistance(lat1, lon1, lat2, lon2) ==
    LET dLat == lat2 - lat1
        absLat == IF dLat < 0 THEN -dLat ELSE dLat
    IN  [num |-> (earthRadius \div 1000) * 71 * absLat,
         den |-> 36 * 113 * 1000]

\* a rational number of metres as stored in a DECIMAL(10,2) column:
\* hundredths of a metre, rounded half up
Decimal2(d) == (d.num + (d.den \div 200)) \div (d.den \div 100)

\* ValidateLocation with the comparison the wrong way round
ValidateLocation_Inverted(userLat, userLon, locationLat, locationLon, radius) ==
    LET distance == CalculateDistance(userLat, userLon, locationLat, locationLon)
    IN  [isValid |-> distance.num >= radius * distance.den,
         distance |-> distance]

\* ValidateLocation with distance < radius
ValidateLocation_Strict(userLat, userLon, locationLat, locationLon, radius) ==
    LET distance == CalculateDistance(userLat, userLon, locationLat, locationLon)
    IN  [isValid |-> distance.num < radius * distance.den,
         distance |-> distance]

ValidateLocation(userLat, userLon, locationLat, locationLon, radius) ==
    LET distance == CalculateDistance(userLat, userLon, locationLat, locationLon)
    IN  [isValid |-> distance.num <= radius * distance.den,
         distance |-> distance]

(***************************************************************************)
(* Location directory.                                                     *)
(***************************************************************************)
\* GetLocationByID: the row with primary key id, or "location not found"
GetLocationByID(locs, id) ==
    IF id \in DOMAIN locs
    THEN [err |-> NoError, location |-> locs[id]]
    ELSE [err |-> ErrLocationNotFound, location |-> <<>>]

\* ValidateLocationForAttendance without the test of location.IsActive
ValidateLocationForAttendance_SkipActive(locs, locationID, userLat, userLon) ==
    LET got == GetLocationByID(locs, locationID)
    IN  IF got.err # NoError
        THEN [err |-> got.err, isValid |-> FALSE, distance |-> [num |-> 0, den |-> 1]]
        ELSE LET v == ValidateLocation(userLat, userLon, got.location.Latitude,
                                       got.location.Longitude, got.location.Radius)
             IN  [err |-> NoError, isValid |-> v.isValid, distance |-> v.distance]

ValidateLocationForAttendance(locs, locationID, userLat, userLon) ==
    LET got == GetLocationByID(locs, locationID)
    IN  IF got.err # NoError
        THEN [err |-> got.err, isValid |-> FALSE, distance |-> [num |-> 0, den |-> 1]]
        ELSE IF ~got.location.IsActive
        THEN [err |-> ErrLocationInactive, isValid |-> FALSE,
              distance |-> [num |-> 0, den |-> 1]]
        ELSE LET v == ValidateLocation(userLat, userLon, got.location.Latitude,
                                       got.location.Longitude, got.location.Radius)
             IN  [err |-> NoError, isValid |-> v.isValid, distance |-> v.distance]

(***************************************************************************)
(* Status classification.                                                  *)
(***************************************************************************)
\* determineAttendanceStatus with 09:xx counted as late
determineAttendanceStatus_Late9(checkInTime) ==
    LET hour == checkInTime.hour
    IN  IF hour < 9 THEN "present"
        ELSE IF hour < 12 THEN "late"
        ELSE "half_day"

determineAttendanceStatus(checkInTime) ==
    LET hour == checkInTime.hour
    IN  IF hour < 9 THEN "present"
        ELSE IF hour = 9 THEN "present"
        ELSE IF hour < 12 THEN "late"
        ELSE "half_day"

(***************************************************************************)
(* Attendance ledger: the rows of table attendances in primary-key order;  *)
(* the row at index i has ID = i.  A nil pointer is the empty sequence, a  *)
(* set pointer the one-element sequence of its value.                      *)
(***************************************************************************)

\* the query without the user_id condition
TodayRows_AnyUser(att, userID, t) ==
    {i \in 1..Len(att) : DateOf(att[i].CheckInTime) = DateOf(t)}

\* rows of userID whose DATE(check_in_time) is the date of t
TodayRows(att, userID, t) ==
    {i \in 1..Len(att) :
        att[i].UserID = userID /\ DateOf(att[i].CheckInTime) = DateOf(t)}

\* HasCheckedInToday with count > 1
HasCheckedInToday_OffByOne(att, userID, t) ==
    Cardinality(TodayRows(att, userID, t)) > 1

\* HasCheckedInToday: count > 0, the clock read at t
HasCheckedInToday(att, userID, t) == Cardinality(TodayRows(att, userID, t)) > 0

\* GetTodayAttendance without the DATE(check_in_time) condition
GetTodayAttendance_AnyDay(att, userID, t) ==
    LET rows == {i \in 1..Len(att) : att[i].UserID = userID}
    IN  IF rows = {} THEN 0
        ELSE CHOOSE i \in rows : \A j \in rows : i <= j

\* GetTodayAttendance: First() returns the matching row of lowest primary
\* key; 0 stands for gorm.ErrRecordNotFound
GetTodayAttendance(att, userID, t) ==
    LET rows == TodayRows(att, userID, t)
    IN  IF rows = {} THEN 0
        ELSE CHOOSE i \in rows : \A j \in rows : i <= j

\* the AlreadyCheckedOut test never firing
HasCheckedOut_Never(attendance) == FALSE

\* attendance.CheckOutTime != nil
HasCheckedOut(attendance) == attendance.CheckOutTime # <<>>

\* CheckOut validating against the record's primary key instead of its
\* location
CheckOutLocationID_RowID(attendance) == attendance.ID

\* the location CheckOut validates against: the one of the check-in record
CheckOutLocationID(attendance) == attendance.LocationID

\* the row of CheckIn built without the computed distance
NewAttendance_NoDistance(att, userID, req, distance, status, t) ==
    [ID |-> Len(att) + 1,
     UserID |-> userID,
     LocationID |-> req.LocationID,
     CheckInTime |-> t,
     CheckOutTime |-> <<>>,
     CheckInLatitude |-> req.Latitude,
     CheckInLongitude |-> req.Longitude,
     CheckOutLatitude |-> <<>>,
     CheckOutLongitude |-> <<>>,
     DistanceFromLocation |-> 0,
     Status |-> status,
     Notes |-> req.Notes,
     PhotoURL |-> req.PhotoURL]

\* the row CheckIn builds and db.Create inserts with the next primary key
NewAttendance(att, userID, req, distance, status, t) ==
    [ID |-> Len(att) + 1,
     UserID |-> userID,
     LocationID |-> req.LocationID,
     CheckInTime |-> t,
     CheckOutTime |-> <<>>,
     CheckInLatitude |-> req.Latitude,
     CheckInLongitude |-> req.Longitude,
     CheckOutLatitude |-> <<>>,
     CheckOutLongitude |-> <<>>,
     DistanceFromLocation |-> Decimal2(distance),
     Status |-> status,
     Notes |-> req.Notes,
     PhotoURL |-> req.PhotoURL]

\* the notes of the request replacing the notes of the record
AppendNotes_Replace(notes, reqNotes) ==
    IF reqNotes # <<>> THEN reqNotes ELSE notes

\* the notes CheckOut stores: " | " joins the request's notes to the record's
AppendNotes(notes, reqNotes) ==
    IF reqNotes # <<>>
    THEN IF notes # <<>> THEN notes \o <<" | ">> \o reqNotes ELSE reqNotes
    ELSE notes

\* CheckOut classifying the record again at check-out time
CheckedOut_Reclassify(row, req, t) ==
    [row EXCEPT !.CheckOutTime = <<t>>,
                !.CheckOutLatitude = <<req.Latitude>>,
                !.CheckOutLongitude = <<req.Longitude>>,
                !.Status = IF t.hour < 9 THEN "present"
                           ELSE IF t.hour = 9 THEN "present"
                           ELSE IF t.hour < 12 THEN "late"
                           ELSE "half_day",
                !.Notes = AppendNotes(row.Notes, req.Notes)]

\* the in-memory record of CheckOut after "Update check-out info"
CheckedOut(row, req, t) ==
    [row EXCEPT !.CheckOutTime = <<t>>,
                !.CheckOutLatitude = <<req.Latitude>>,
                !.CheckOutLongitude = <<req.Longitude>>,
                !.Notes = AppendNotes(row.Notes, req.Notes)]

\* the update written to the first row of the table
Save_FirstRow(att, row) == [att EXCEPT ![1] = row]

\* db.Save: UPDATE of every column of the row with the record's primary key
Save(att, row) == [att EXCEPT ![row.ID] = row]

\* CheckIn whose insert reaches the table although the call returns the
\* error of db.Create
CheckInOutcome_WriteThenFail(att, locs, userID, req, t1, t2, t3, fail) ==
    LET v == ValidateLocationForAttendance(locs, req.LocationID,
                                           req.Latitude, req.Longitude)
        inserted == Append(att, NewAttendance(att, userID, req, v.distance,
                                  determineAttendanceStatus(t2), t3))
    IN  IF fail = "count"
        THEN [err |-> ErrStorage, att |-> att, clock |-> t1]
        ELSE IF HasCheckedInToday(att, userID, t1)
        THEN [err |-> ErrAlreadyCheckedIn, att |-> att, clock |-> t1]
        ELSE IF fail = "location"
        THEN [err |-> ErrStorage, att |-> att, clock |-> t1]
        ELSE IF v.err # NoError
        THEN [err |-> v.err, att |-> att, clock |-> t1]
        ELSE IF ~v.isValid
        THEN [err |-> ErrOutsideCheckIn, att |-> att, clock |-> t1]
        ELSE IF fail = "create"
        THEN [err |-> ErrStorage, att |-> inserted, clock |-> t3]
        ELSE [err |-> NoError, att |-> inserted, clock |-> t3]

\* CheckIn with the geofence validated before the look for today's record
CheckInOutcome_ValidateFirst(att, locs, userID, req, t1, t2, t3, fail) ==
    LET v == ValidateLocationForAttendance(locs, req.LocationID,
                                           req.Latitude, req.Longitude)
    IN  IF v.err # NoError
        THEN [err |-> v.err, att |-> att, clock |-> t1]
        ELSE IF ~v.isValid
        THEN [err |-> ErrOutsideCheckIn, att |-> att, clock |-> t1]
        ELSE IF HasCheckedInToday(att, userID, t1)
        THEN [err |-> ErrAlreadyCheckedIn, att |-> att, clock |-> t1]
        ELSE [err |-> NoError,
              att |-> Append(att, NewAttendance(att, userID, req, v.distance,
                                     determineAttendanceStatus(t2), t3)),
              clock |-> t3]

(***************************************************************************)
(* AttendanceService.CheckIn as one call.  t1, t2, t3 are the three clock  *)
(* reads of the call (HasCheckedInToday, the classification, CheckInTime); *)
(* fail names the storage round trip that returns an error.  The result    *)
(* is the error returned, the ledger after the call and the last clock     *)
(* reading made.                                                           *)
(***************************************************************************)
CheckInOutcome(att, locs, userID, req, t1, t2, t3, fail) ==
    LET v == ValidateLocationForAttendance(locs, req.LocationID,
                                           req.Latitude, req.Longitude)
    IN  IF fail = "count"
        THEN [err |-> ErrStorage, att |-> att, clock |-> t1]
        ELSE IF HasCheckedInToday(att, userID, t1)
        THEN [err |-> ErrAlreadyCheckedIn, att |-> att, clock |-> t1]
        ELSE IF fail = "location"
        THEN [err |-> ErrStorage, att |-> att, clock |-> t1]
        ELSE IF v.err # NoError
        THEN [err |-> v.err, att |-> att, clock |-> t1]
        ELSE IF ~v.isValid
        THEN [err |-> ErrOutsideCheckIn, att |-> att, clock |-> t1]
        ELSE IF fail = "create"
        THEN [err |-> ErrStorage, att |-> att, clock |-> t3]
        ELSE [err |-> NoError,
              att |-> Append(att, NewAttendance(att, userID, req, v.distance,
                                     determineAttendanceStatus(t2), t3)),
              clock |-> t3]

(***************************************************************************)
(* AttendanceService.CheckOut as one call.  t1 is the clock read of        *)
(* GetTodayAttendance, t2 the one of "now := time.Now()".                  *)
(***************************************************************************)
CheckOutOutcome(att, locs, userID, req, t1, t2, fail) ==
    LET i == GetTodayAttendance(att, userID, t1)
    IN  IF fail = "first"
        THEN [err |-> ErrStorage, att |-> att, clock |-> t1]
        ELSE IF i = 0
        THEN [err |-> ErrNoRecordToday, att |-> att, clock |-> t1]
        ELSE IF HasCheckedOut(att[i])
        THEN [err |-> ErrAlreadyCheckedOut, att |-> att, clock |-> t1]
        ELSE IF fail = "location"
        THEN [err |-> ErrStorage, att |-> att, clock |-> t1]
        ELSE LET v == ValidateLocationForAttendance(locs, CheckOutLocationID(att[i]),
                                                    req.Latitude, req.Longitude)
             IN  IF v.err # NoError
                 THEN [err |-> v.err, att |-> att, clock |-> t1]
                 ELSE IF ~v.isValid
                 THEN [err |-> ErrOutsideCheckOut, att |-> att, clock |-> t1]
                 ELSE IF fail = "save"
                 THEN [err |-> ErrStorage, att |-> att, clock |-> t2]
                 ELSE [err |-> NoError,
                       att |-> Save(att, CheckedOut(att[i], req, t2)),
                       clock |-> t2]

(***************************************************************************)
(* Read paths of the ledger.                                               *)
(***************************************************************************)
\* which storage round trip of GetAttendanceStatus fails, if any
StatusFailures == {"none", "first"}

\* AttendanceService.GetAttendanceStatus: every error of GetTodayAttendance,
\* gorm.ErrRecordNotFound or not, gives the payload of "no check-in today"
\* with a nil error
GetAttendanceStatus(att, userID, t, fail) ==
    LET i == GetTodayAttendance(att, userID, t)
    IN  IF fail = "first" \/ i = 0
        THEN [err |-> NoError,
              has_checked_in |-> FALSE,
              has_checked_out |-> FALSE,
              message |-> "You haven't checked in today"]
        ELSE [err |-> NoError,
              has_checked_in |-> TRUE,
              has_checked_out |-> att[i].CheckOutTime # <<>>,
              check_in_time |-> att[i].CheckInTime,
              check_out_time |-> att[i].CheckOutTime,
              location |-> att[i].LocationID,
              status |-> att[i].Status]

(***************************************************************************)
(* The state machine of sequential calls.                                  *)
(***************************************************************************)
\* the location directory: two active fences 1000 micro-degrees apart, an
\* inactive one, and no row with id 4
InitLocations ==
    (1 :> [Latitude |-> -6200000, Longitude |-> 106816700, Radius |-> 50,
           IsActive |-> TRUE]) @@
    (2 :> [Latitude |-> -6199000, Longitude |-> 106816700, Radius |-> 50,
           IsActive |-> TRUE]) @@
    (3 :> [Latitude |-> -6200000, Longitude |-> 106816700, Radius |-> 50,
           IsActive |-> FALSE])

\* table users after the seed insert: the system administrator has id 1,
\* the other accounts have the default role
InitUsers ==
    [id \in Users |-> [Role |-> IF id = 1 THEN "admin" ELSE "user",
                       IsActive |-> TRUE]]

\* the tables next to the ledger: no schedule is assigned, and the id
\* sequence of attendance_locations has handed out the ids of InitLocations
InitDirectory ==
    /\ users = InitUsers
    /\ userSchedules = <<>>
    /\ locationSeq = 3

NoProbe == [hour |-> 0, minute |-> 0, status |-> ""]

\* the first clock reading
StartTime == Reading(1)

Init ==
    /\ attendances = <<>>
    /\ locations = InitLocations
    /\ InitDirectory
    /\ now = StartTime
    /\ reqs = <<>>
    /\ probe = NoProbe

Tick ==
    /\ NextTime(now) \in Times
    /\ now' = NextTime(now)
    /\ UNCHANGED <<attendances, locations, reqs, probe>>
    /\ UNCHANGED directory

\* one CheckIn call, handled at the clock reading now
CheckIn(userID, req) ==
    \E fail \in CheckInFailures :
        LET out == CheckInOutcome(attendances, locations, userID, req,
                                  now, now, now, fail)
        IN  /\ Len(out.att) <= MaxRows
            /\ attendances' = out.att
            /\ UNCHANGED <<locations, now, reqs, probe>>
            /\ UNCHANGED directory

\* one CheckOut call, handled at the clock reading now
CheckOut(userID, req) ==
    \E fail \in CheckOutFailures :
        LET out == CheckOutOutcome(attendances, locations, userID, req,
                                   now, now, fail)
        IN  /\ attendances' = out.att
            /\ UNCHANGED <<locations, now, reqs, probe>>
            /\ UNCHANGED directory

Next ==
    \/ Tick
    \/ \E userID \in Users, req \in CheckInRequests : CheckIn(userID, req)
    \/ \E userID \in Users, req \in CheckOutRequests : CheckOut(userID, req)

Spec == Init /\ [][Next]_vars

(***************************************************************************)
(* Concurrent requests.  Every request is served by its own worker; the    *)
(* workers share only the store.  A worker's steps are the storage round   *)
(* trips and clock reads of its call, in program order, and steps of       *)
(* different workers and of the clock interleave freely: the services use  *)
(* no transaction and no lock, and table attendances carries no unique     *)
(* constraint on (user_id, DATE(check_in_time)), only a plain index.       *)
(* reqs[k] is the worker of the k-th request accepted: its program         *)
(* counter pc, its locals and, once pc = "done", the error it returned.    *)
(***************************************************************************)
NewWorker(op, userID, req) ==
    [op |-> op, userID |-> userID, req |-> req,
     pc |-> IF op = "CheckIn" THEN "count" ELSE "first",
     today |-> 0, attendance |-> <<>>, distance |-> [num |-> 0, den |-> 1],
     status |-> "", err |-> NoError]

Finish(w, err) == [w EXCEPT !.pc = "done", !.err = err]

\* the check-in requests of the concurrent runs: those naming fence 1
ConcCheckInRequests == {req \in CheckInRequests : req.LocationID = 1}

\* the ledgers the concurrent runs start from: the empty one, and the one
\* in which user 1 has checked in at fence 1 at the first clock reading
ConcLedgers ==
    {<<>>,
     CheckInOutcome(<<>>, InitLocations, 1,
                    CheckInReq(1, -6199730, <<"in">>, "selfie.jpg"),
                    StartTime, StartTime, StartTime, "none").att}

InitConc ==
    /\ attendances \in ConcLedgers
    /\ locations = InitLocations
    /\ InitDirectory
    /\ now = StartTime
    /\ reqs = <<>>
    /\ probe = NoProbe

\* the controller accepts a request and hands it to a worker
Submit(op, userID, req) ==
    /\ Len(reqs) < MaxReq
    /\ reqs' = Append(reqs, NewWorker(op, userID, req))
    /\ UNCHANGED <<attendances, locations, now, probe>>
    /\ UNCHANGED directory

\* CheckIn: hasCheckedIn, err := s.HasCheckedInToday(userID)
CountStep(k) ==
    /\ reqs[k].pc = "count"
    /\ reqs' = [reqs EXCEPT ![k] =
          IF HasCheckedInToday(attendances, reqs[k].userID, now)
          THEN Finish([@ EXCEPT !.today = DateOf(now)], ErrAlreadyCheckedIn)
          ELSE [@ EXCEPT !.today = DateOf(now), !.pc = "validate"]]
    /\ UNCHANGED <<attendances, locations, now, probe>>
    /\ UNCHANGED directory

\* CheckIn: s.locationService.ValidateLocationForAttendance(req.LocationID, ..)
ValidateStep(k) ==
    /\ reqs[k].pc = "validate"
    /\ LET v == ValidateLocationForAttendance(locations, reqs[k].req.LocationID,
                        reqs[k].req.Latitude, reqs[k].req.Longitude)
       IN  reqs' = [reqs EXCEPT ![k] =
              IF v.err # NoError THEN Finish(@, v.err)
              ELSE IF ~v.isValid THEN Finish(@, ErrOutsideCheckIn)
              ELSE [@ EXCEPT !.distance = v.distance, !.pc = "classify"]]
    /\ UNCHANGED <<attendances, locations, now, probe>>
    /\ UNCHANGED directory

\* CheckIn: status := s.determineAttendanceStatus(time.Now())
ClassifyStep(k) ==
    /\ reqs[k].pc = "classify"
    /\ reqs' = [reqs EXCEPT ![k] =
          [@ EXCEPT !.status = determineAttendanceStatus(now), !.pc = "create"]]
    /\ UNCHANGED <<attendances, locations, now, probe>>
    /\ UNCHANGED directory

\* CheckIn: CheckInTime: time.Now() and s.db.Create(&attendance)
CreateStep(k) ==
    /\ reqs[k].pc = "create"
    /\ LET row == NewAttendance(attendances, reqs[k].userID, reqs[k].req,
                                reqs[k].distance, reqs[k].status, now)
       IN  /\ attendances' = Append(attendances, row)
           /\ reqs' = [reqs EXCEPT ![k] = Finish([@ EXCEPT !.attendance = row], NoError)]
    /\ UNCHANGED <<locations, now, probe>>
    /\ UNCHANGED directory

\* CheckOut: attendance, err := s.GetTodayAttendance(userID) and the test
\* of attendance.CheckOutTime on the record read
FirstStep(k) ==
    /\ reqs[k].pc = "first"
    /\ LET i == GetTodayAttendance(attendances, reqs[k].userID, now)
       IN  reqs' = [reqs EXCEPT ![k] =
              IF i = 0
              THEN Finish([@ EXCEPT !.today = DateOf(now)], ErrNoRecordToday)
              ELSE IF HasCheckedOut(attendances[i])
              THEN Finish([@ EXCEPT !.today = DateOf(now),
                                    !.attendance = attendances[i]],
                          ErrAlreadyCheckedOut)
              ELSE [@ EXCEPT !.today = DateOf(now),
                             !.attendance = attendances[i],
                             !.pc = "validateOut"]]
    /\ UNCHANGED <<attendances, locations, now, probe>>
    /\ UNCHANGED directory

\* CheckOut: s.locationService.ValidateLocationForAttendance(attendance.LocationID, ..)
ValidateOutStep(k) ==
    /\ reqs[k].pc = "validateOut"
    /\ LET v == ValidateLocationForAttendance(locations,
                        CheckOutLocationID(reqs[k].attendance),
                        reqs[k].req.Latitude, reqs[k].req.Longitude)
       IN  reqs' = [reqs EXCEPT ![k] =
              IF v.err # NoError THEN Finish(@, v.err)
              ELSE IF ~v.isValid THEN Finish(@, ErrOutsideCheckOut)
              ELSE [@ EXCEPT !.pc = "save"]]
    /\ UNCHANGED <<attendances, locations, now, probe>>
    /\ UNCHANGED directory

\* CheckOut: now := time.Now(), the update of the record read by
\* GetTodayAttendance, and s.db.Save(&attendance)
SaveStep(k) ==
    /\ reqs[k].pc = "save"
    /\ LET row == CheckedOut(reqs[k].attendance, reqs[k].req, now)
       IN  /\ attendances' = Save(attendances, row)
           /\ reqs' = [reqs EXCEPT ![k] = Finish([@ EXCEPT !.attendance = row], NoError)]
    /\ UNCHANGED <<locations, now, probe>>
    /\ UNCHANGED directory

\* the storage round trip a worker is about to make returns an error
StorageFailure(k) ==
    /\ reqs[k].pc \in {"count", "validate", "create", "first", "validateOut", "save"}
    /\ reqs' = [reqs EXCEPT ![k] = Finish(@, ErrStorage)]
    /\ UNCHANGED <<attendances, locations, now, probe>>
    /\ UNCHANGED directory

TickConc ==
    /\ NextTime(now) \in Times
    /\ now' = NextTime(now)
    /\ UNCHANGED <<attendances, locations, reqs, probe>>
    /\ UNCHANGED directory

NextConc ==
    \/ TickConc
    \/ \E userID \in Users, req \in ConcCheckInRequests : Submit("CheckIn", userID, req)
    \/ \E userID \in Users, req \in CheckOutRequests : Submit("CheckOut", userID, req)
    \/ \E k \in 1..Len(reqs) : CountStep(k)
    \/ \E k \in 1..Len(reqs) : ValidateStep(k)
    \/ \E k \in 1..Len(reqs) : ClassifyStep(k)
    \/ \E k \in 1..Len(reqs) : CreateStep(k)
    \/ \E k \in 1..Len(reqs) : FirstStep(k)
    \/ \E k \in 1..Len(reqs) : ValidateOutStep(k)
    \/ \E k \in 1..Len(reqs) : SaveStep(k)
    \/ \E k \in 1..Len(reqs) : StorageFailure(k)

SpecConc == InitConc /\ [][NextConc]_vars

(***************************************************************************)
(* The status classification as a function of the time of day.             *)
(***************************************************************************)
Minutes == 0..59

InitStatus ==
    /\ attendances = <<>>
    /\ locations = InitLocations
    /\ InitDirectory
    /\ now = StartTime
    /\ reqs = <<>>
    /\ probe \in [hour : Hours, minute : Minutes, status : {""}]

\* s.determineAttendanceStatus(checkInTime) for the time of day of probe
Classify ==
    /\ probe.status = ""
    /\ probe' = [probe EXCEPT !.status = determineAttendanceStatus(probe)]
    /\ UNCHANGED <<attendances, locations, now, reqs>>
    /\ UNCHANGED directory

NextStatus == Classify

SpecStatus == InitStatus /\ [][NextStatus]_vars

(***************************************************************************)
(* utils.ValidateLocation as a function of the user's position and the     *)
(* radius: the user stands offset micro-degrees of latitude from the       *)
(* centre of fence 1 (about 0.11 m each), the radius is in metres.         *)
(***************************************************************************)
MaxOffset == 60
MaxRadius == 5

GeoOffsets == (0 - MaxOffset)..MaxOffset
GeoRadii == 0..MaxRadius

InitGeo ==
    /\ attendances = <<>>
    /\ locations = InitLocations
    /\ InitDirectory
    /\ now = StartTime
    /\ reqs = <<>>
    /\ probe \in [offset : GeoOffsets, radius : GeoRadii, done : {FALSE},
                  isValid : {FALSE}, distance : {[num |-> 0, den |-> 1]}]

\* isValid, distance := utils.ValidateLocation(userLat, userLon,
\*                          location.Latitude, location.Longitude, radius)
Validate ==
    /\ ~probe.done
    /\ LET v == ValidateLocation(locations[1].Latitude + probe.offset,
                                 locations[1].Longitude,
                                 locations[1].Latitude, locations[1].Longitude,
                                 probe.radius)
       IN  probe' = [probe EXCEPT !.done = TRUE, !.isValid = v.isValid,
                                  !.distance = v.distance]
    /\ UNCHANGED <<attendances, locations, now, reqs>>
    /\ UNCHANGED directory

NextGeo == Validate

SpecGeo == InitGeo /\ [][NextGeo]_vars

(***************************************************************************)
(* utils.CalculateDistance as a function of two points a and b on the      *)
(* meridian of fence 1, each offset micro-degrees of latitude from its     *)
(* centre: the call in both argument orders and on a point with itself.    *)
(***************************************************************************)
NoDistance == [num |-> 0, den |-> 1]

InitDist ==
    /\ attendances = <<>>
    /\ locations = InitLocations
    /\ InitDirectory
    /\ now = StartTime
    /\ reqs = <<>>
    /\ probe \in [a : GeoOffsets, b : GeoOffsets, done : {FALSE},
                  ab : {NoDistance}, ba : {NoDistance}, aa : {NoDistance}]

\* utils.CalculateDistance(lat1, lon1, lat2, lon2) for (a, b), (b, a), (a, a)
Measure ==
    /\ ~probe.done
    /\ LET lon == locations[1].Longitude
           latA == locations[1].Latitude + probe.a
           latB == locations[1].Latitude + probe.b
       IN  probe' = [probe EXCEPT
                        !.done = TRUE,
                        !.ab = CalculateDistance(latA, lon, latB, lon),
                        !.ba = CalculateDistance(latB, lon, latA, lon),
                        !.aa = CalculateDistance(latA, lon, latA, lon)]
    /\ UNCHANGED <<attendances, locations, now, reqs>>
    /\ UNCHANGED directory

NextDist == Measure

SpecDist == InitDist /\ [][NextDist]_vars

(***************************************************************************)
(* History and admin list.  A query parameter is absent or a text, the     *)
(* text a sequence of characters.                                          *)
(***************************************************************************)
Digits == <<"0", "1", "2", "3", "4", "5", "6", "7", "8", "9">>

IsDigit(c) == \E d \in 1..Len(Digits) : Digits[d] = c

DigitValue(c) == (CHOOSE d \in 1..Len(Digits) : Digits[d] = c) - 1

RECURSIVE ParseDigits(_, _)
\* the value of the decimal digits s after the value acc of those before
ParseDigits(s, acc) ==
    IF s = <<>> THEN acc
    ELSE ParseDigits(Tail(s), acc * Len(Digits) + DigitValue(Head(s)))

\* strconv.Atoi with its error dropped: an optional sign and decimal
\* digits give the number, any other text gives 0
Atoi(s) ==
    LET signed == s # <<>> /\ Head(s) \in {"+", "-"}
        digits == IF signed THEN Tail(s) ELSE s
    IN  IF digits = <<>> \/ \E k \in 1..Len(digits) : ~IsDigit(digits[k])
        THEN 0
        ELSE IF signed /\ Head(s) = "-"
        THEN 0 - ParseDigits(digits, 0)
        ELSE ParseDigits(digits, 0)

\* a query parameter that was not sent, and one sent with text s
QueryAbsent == [present |-> FALSE, text |-> <<>>]
QueryText(s) == [present |-> TRUE, text |-> s]

\* c.DefaultQuery(key, defaultValue)
DefaultQuery(q, defaultValue) == IF q.present THEN q.text ELSE defaultValue

\* if page < 1 { page = 1 }
EffectivePage(page) == IF page < 1 THEN 1 ELSE page

\* the limit test with its upper bound missing
EffectiveLimit_NoUpper(limit, defaultLimit) ==
    IF limit < 1 THEN defaultLimit ELSE limit

\* if limit < 1 || limit > 100 { limit = 10 } (20 in the admin list)
EffectiveLimit(limit, defaultLimit) ==
    IF limit < 1 \/ limit > 100 THEN defaultLimit ELSE limit

\* the page count rounded down
TotalPage_Floor(total, limit) == total \div limit

\* "total_page": (int(total) + limit - 1) / limit
TotalPage(total, limit) == (total + limit - 1) \div limit

\* a is later than b
After(a, b) == a.day > b.day \/ (a.day = b.day /\ a.hour > b.hour)

RECURSIVE OrderDesc(_, _)
\* Order("check_in_time DESC"): the rows of set rows, latest check-in first
OrderDesc(att, rows) ==
    IF rows = {} THEN <<>>
    ELSE LET first == CHOOSE i \in rows :
                         \A j \in rows : ~After(att[j].CheckInTime, att[i].CheckInTime)
         IN  <<first>> \o OrderDesc(att, rows \ {first})

\* Limit(limit).Offset(offset) of an ordered result
LimitOffset(ordered, limit, offset) ==
    SubSeq(ordered, offset + 1,
           IF offset + limit < Len(ordered) THEN offset + limit ELSE Len(ordered))

\* which storage round trip of a listing fails, if any
HistoryFailures == {"none", "count", "find"}

\* AttendanceService.GetUserAttendanceHistory: the error of the count is
\* dropped (total stays 0), the error of the find is returned; the result
\* holds the primary keys of the rows found
GetUserAttendanceHistory(att, userID, limit, offset, fail) ==
    LET rows == {i \in 1..Len(att) : att[i].UserID = userID}
        total == IF fail = "count" THEN 0 ELSE Cardinality(rows)
    IN  IF fail = "find"
        THEN [err |-> ErrStorage, attendances |-> <<>>, total |-> 0]
        ELSE [err |-> NoError,
              attendances |-> LimitOffset(OrderDesc(att, rows), limit, offset),
              total |-> total]

\* the filters of the admin list; 0 and "" stand for a filter not set
NoFilters == [user_id |-> 0, location_id |-> 0, status |-> "",
              date_from |-> 0, date_to |-> 0]

\* AttendanceService.GetAllAttendances
GetAllAttendances(att, filters, limit, offset, fail) ==
    LET rows == {i \in 1..Len(att) :
                   /\ filters.user_id > 0 => att[i].UserID = filters.user_id
                   /\ filters.location_id > 0 => att[i].LocationID = filters.location_id
                   /\ filters.status # "" => att[i].Status = filters.status
                   /\ filters.date_from # 0 => DateOf(att[i].CheckInTime) >= filters.date_from
                   /\ filters.date_to # 0 => DateOf(att[i].CheckInTime) <= filters.date_to}
        total == IF fail = "count" THEN 0 ELSE Cardinality(rows)
    IN  IF fail = "find"
        THEN [err |-> ErrStorage, attendances |-> <<>>, total |-> 0]
        ELSE [err |-> NoError,
              attendances |-> LimitOffset(OrderDesc(att, rows), limit, offset),
              total |-> total]

\* the HTTP status codes the attendance controller answers with
StatusOK == 200
StatusCreated == 201
StatusBadRequest == 400
StatusInternalServerError == 500

\* the body of AttendanceController.GetAttendanceHistory after the binding
\* of the query parameters: the envelope, or the error response
GetAttendanceHistoryResponse(att, userID, pageQuery, limitQuery, fail) ==
    LET page == EffectivePage(Atoi(DefaultQuery(pageQuery, <<"1">>)))
        limit == EffectiveLimit(Atoi(DefaultQuery(limitQuery, <<"1", "0">>)), 10)
        offset == (page - 1) * limit
        got == GetUserAttendanceHistory(att, userID, limit, offset, fail)
    IN  IF got.err # NoError
        THEN [code |-> StatusInternalServerError, data |-> <<>>, total |-> 0,
              page |-> page, limit |-> limit, total_page |-> 0]
        ELSE [code |-> StatusOK, data |-> got.attendances, total |-> got.total,
              page |-> page, limit |-> limit,
              total_page |-> TotalPage(got.total, limit)]

\* the body of AttendanceController.GetAllAttendances
GetAllAttendancesResponse(att, filters, pageQuery, limitQuery, fail) ==
    LET page == EffectivePage(Atoi(DefaultQuery(pageQuery, <<"1">>)))
        limit == EffectiveLimit(Atoi(DefaultQuery(limitQuery, <<"2", "0">>)), 20)
        offset == (page - 1) * limit
        got == GetAllAttendances(att, filters, limit, offset, fail)
    IN  IF got.err # NoError
        THEN [code |-> StatusInternalServerError, data |-> <<>>, total |-> 0,
              page |-> page, limit |-> limit, total_page |-> 0]
        ELSE [code |-> StatusOK, data |-> got.attendances, total |-> got.total,
              page |-> page, limit |-> limit,
              total_page |-> TotalPage(got.total, limit)]

(***************************************************************************)
(* The answers of the attendance controller to CheckIn and CheckOut.       *)
(***************************************************************************)
\* AttendanceController.CheckIn: the status code answered for the error
\* the service returned
CheckInResponse(err) ==
    IF err # NoError THEN StatusBadRequest ELSE StatusCreated

\* AttendanceController.CheckOut
CheckOutResponse(err) ==
    IF err # NoError THEN StatusBadRequest ELSE StatusOK

MaxTotal == 25

\* the i-th row of a ledger in which user 1 checks in at fence 1 at the
\* first clock hour of every day and user 2 at fence 2 at the second clock
\* hour of the odd days: rows 3b+1, 3b+2 are of day 2b+1, row 3b+3 of day 2b+2
HistoryRow(i) ==
    LET block == (i - 1) \div 3
        pos == (i - 1) % 3
        userID == IF pos = 1 THEN 2 ELSE 1
        req == IF pos = 1 THEN CheckInReq(2, -6199280, <<>>, "")
               ELSE CheckInReq(1, -6199730, <<"in">>, "selfie.jpg")
        t == [day |-> 2 * block + (IF pos = 2 THEN 2 ELSE 1),
              hour |-> ClockHours[IF pos = 1 THEN 2 ELSE 1]]
        v == ValidateLocationForAttendance(InitLocations, req.LocationID,
                                           req.Latitude, req.Longitude)
    IN  NewAttendance([j \in 1..(i - 1) |-> j], userID, req, v.distance,
                      determineAttendanceStatus(t), t)

\* the ledger of the first n days
HistoryLedger(n) == [i \in 1..(n + ((n + 1) \div 2)) |-> HistoryRow(i)]

\* the page and limit parameters the clients send
PageQueries ==
    {QueryAbsent, QueryText(<<"a", "b", "c">>), QueryText(<<"-", "1">>),
     QueryText(<<"0">>), QueryText(<<"1">>), QueryText(<<"2">>),
     QueryText(<<"3">>), QueryText(<<"4">>)}

LimitQueries ==
    {QueryAbsent, QueryText(<<>>), QueryText(<<"-", "1">>), QueryText(<<"0">>),
     QueryText(<<"1">>), QueryText(<<"2">>), QueryText(<<"1", "0">>),
     QueryText(<<"2", "5">>), QueryText(<<"1", "0", "0">>),
     QueryText(<<"1", "0", "1">>)}

\* the filters the administrators send
FilterQueries ==
    {NoFilters,
     [NoFilters EXCEPT !.user_id = 1],
     [NoFilters EXCEPT !.location_id = 2],
     [NoFilters EXCEPT !.status = "late"],
     [NoFilters EXCEPT !.date_from = 2],
     [NoFilters EXCEPT !.date_to = 1]}

NoResponse ==
    [code |-> 0, data |-> <<>>, total |-> 0, page |-> 0, limit |-> 0,
     total_page |-> 0]

\* one listing request against one ledger
InitHistory ==
    /\ attendances \in {HistoryLedger(n) : n \in 0..MaxTotal}
    /\ locations = InitLocations
    /\ InitDirectory
    /\ now = StartTime
    /\ reqs = <<>>
    /\ probe \in
          [op : {"history"}, userID : Users, filters : {NoFilters},
           page : PageQueries, limit : LimitQueries, fail : HistoryFailures,
           done : {FALSE}, resp : {NoResponse}]
          \cup
          [op : {"all"}, userID : {0}, filters : FilterQueries,
           page : PageQueries, limit : LimitQueries, fail : HistoryFailures,
           done : {FALSE}, resp : {NoResponse}]

\* GET /api/v1/attendance/history
GetAttendanceHistory ==
    /\ probe.op = "history"
    /\ ~probe.done
    /\ probe' = [probe EXCEPT !.done = TRUE,
                    !.resp = GetAttendanceHistoryResponse(attendances, probe.userID,
                                probe.page, probe.limit, probe.fail)]
    /\ UNCHANGED <<attendances, locations, now, reqs>>
    /\ UNCHANGED directory

\* GET /api/v1/admin/attendances
AdminGetAllAttendances ==
    /\ probe.op = "all"
    /\ ~probe.done
    /\ probe' = [probe EXCEPT !.done = TRUE,
                    !.resp = GetAllAttendancesResponse(attendances, probe.filters,
                                probe.page, probe.limit, probe.fail)]
    /\ UNCHANGED <<attendances, locations, now, reqs>>
    /\ UNCHANGED directory

NextHistory ==
    \/ GetAttendanceHistory
    \/ AdminGetAllAttendances

SpecHistory == InitHistory /\ [][NextHistory]_vars

(***************************************************************************)
(* The response of an attendance record.  Here a timestamp carries its     *)
(* minute and second, a time.Duration is a number of seconds, and a text   *)
(* is a sequence of characters.                                            *)
(***************************************************************************)
\* a component of a timestamp; the clock readings of the ledger have none
\* below the hour
Component(t, name) == IF name \in DOMAIN t THEN t[name] ELSE 0

\* t.Sub(u) in seconds
Sub(t, u) ==
    ((t.day - u.day) * 24 + (t.hour - u.hour)) * 3600
    + (Component(t, "minute") - Component(u, "minute")) * 60
    + (Component(t, "second") - Component(u, "second"))

\* Go's integer division and remainder, truncated toward zero
Quo(a, b) == IF a >= 0 THEN a \div b ELSE 0 - ((0 - a) \div b)
Rem(a, b) == a - b * Quo(a, b)

RECURSIVE Itoa(_)
\* the decimal digits of n >= 0
Itoa(n) ==
    IF n < Len(Digits) THEN <<Digits[n + 1]>>
    ELSE Append(Itoa(n \div Len(Digits)), Digits[(n % Len(Digits)) + 1])

\* time.Duration.String() of a whole number of seconds: "0s", "59s",
\* "5m0s", "8h30m0s"; leading units that are zero are left out
DurationString(d) ==
    LET u == IF d < 0 THEN 0 - d ELSE d
        h == u \div 3600
        m == (u % 3600) \div 60
        s == u % 60
    IN  (IF d < 0 THEN <<"-">> ELSE <<>>)
        \o (IF h > 0 THEN Itoa(h) \o <<"h">> ELSE <<>>)
        \o (IF h > 0 \/ m > 0 THEN Itoa(m) \o <<"m">> ELSE <<>>)
        \o Itoa(s) \o <<"s">>

\* the duration printed with its seconds kept
formatDuration_Seconds(d) == DurationString(d)

\* formatDuration: int(d.Hours()) hours and int(d.Minutes()) % 60 minutes
formatDuration(d) ==
    LET hours == Quo(d, 3600)
        minutes == Rem(Quo(d, 60), 60)
    IN  DurationString(hours * 3600 + minutes * 60)

\* Attendance.ToResponse: the fields of the record, and work_duration when
\* CheckOutTime is set (a nil WorkDuration is left out of the JSON)
ToResponse(a) ==
    [WorkDuration |->
        IF a.CheckOutTime # <<>>
        THEN <<formatDuration(Sub(a.CheckOutTime[1], a.CheckInTime))>>
        ELSE <<>>] @@ a

\* timestamps of one day, to the second
Stamps ==
    {[day |-> 1, hour |-> h, minute |-> m, second |-> s] :
        h \in {8, 9, 17}, m \in {0, 59}, s \in {0, 1, 59}}

\* the record of user 1 checked in at tin and, when out is set, checked out
\* at out[1]
ResponseRow(tin, out) ==
    LET row == [HistoryRow(1) EXCEPT !.CheckInTime = tin]
    IN  IF out = <<>> THEN row
        ELSE CheckedOut(row, CheckOutReq(-6199730, <<>>), out[1])

ResponseRows ==
    {ResponseRow(tin, <<>>) : tin \in Stamps} \cup
    {ResponseRow(st[1], <<st[2]>>) :
        st \in {p \in Stamps \X Stamps : Sub(p[2], p[1]) >= 0}}

InitResponse ==
    /\ attendances = <<>>
    /\ locations = InitLocations
    /\ InitDirectory
    /\ now = StartTime
    /\ reqs = <<>>
    /\ probe \in [row : ResponseRows, done : {FALSE}, resp : {<<>>}]

\* attendance.ToResponse() for the record of probe
Respond ==
    /\ ~probe.done
    /\ probe' = [probe EXCEPT !.done = TRUE, !.resp = ToResponse(probe.row)]
    /\ UNCHANGED <<attendances, locations, now, reqs>>
    /\ UNCHANGED directory

NextResponse == Respond

SpecResponse == InitResponse /\ [][NextResponse]_vars

(***************************************************************************)
(* Location administration: the admin routes POST, PUT and DELETE          *)
(* /locations.  A request body carries the JSON numbers of its fields, an  *)
(* absent field is the zero value, an absent is_active the nil pointer.    *)
(***************************************************************************)
MaxLocation == 2

CreateLocationReq(name, latitude, longitude, radius) ==
    [Name |-> name, Latitude |-> latitude, Longitude |-> longitude,
     Radius |-> radius]

UpdateLocationReq(latitude, radius, isActive) ==
    [Latitude |-> latitude, Longitude |-> 0, Radius |-> radius,
     IsActive |-> isActive]

\* bodies of POST /locations: a fence of 10 m around the first check-in
\* position, and bodies with a missing or negative radius, a missing name
CreateLocationRequests ==
    {CreateLocationReq("Gate", -6199730, 106816700, 10),
     CreateLocationReq("Gate", -6199730, 106816700, 0),
     CreateLocationReq("Gate", -6199730, 106816700, -10),
     CreateLocationReq("", -6199730, 106816700, 10)}

\* bodies of PUT /locations/:id: the radius shrunk to 20 m or restored to
\* 50 m, the centre moved 1000 micro-degrees north, the fence deactivated or
\* reactivated, and bodies whose radius is absent or negative
UpdateLocationRequests ==
    {UpdateLocationReq(0, 20, <<>>),
     UpdateLocationReq(0, 50, <<>>),
     UpdateLocationReq(-6199000, 50, <<>>),
     UpdateLocationReq(0, 50, <<FALSE>>),
     UpdateLocationReq(0, 50, <<TRUE>>),
     UpdateLocationReq(0, 0, <<FALSE>>),
     UpdateLocationReq(-6199000, -20, <<>>)}

\* binding:"required" on name, latitude, longitude; "required,min=1" on
\* radius
BindCreateLocation_NoMin(req) ==
    req.Name # "" /\ req.Latitude # 0 /\ req.Longitude # 0 /\ req.Radius # 0

BindCreateLocation(req) ==
    /\ req.Name # ""
    /\ req.Latitude # 0
    /\ req.Longitude # 0
    /\ req.Radius # 0 /\ req.Radius >= 1

\* binding:"min=1" on radius, no omitempty: the zero value is validated too
BindUpdateLocation(req) == req.Radius >= 1

\* column default of radius, used by the insert for the zero value
DefaultRadius == 10

\* LocationService.CreateLocation: the row inserted
NewLocation(req) ==
    [Latitude |-> req.Latitude, Longitude |-> req.Longitude,
     Radius |-> IF req.Radius = 0 THEN DefaultRadius ELSE req.Radius,
     IsActive |-> TRUE]

\* LocationService.UpdateLocation: the row saved
UpdatedLocation(location, req) ==
    [Latitude |-> IF req.Latitude # 0 THEN req.Latitude
                  ELSE location.Latitude,
     Longitude |-> IF req.Longitude # 0 THEN req.Longitude
                   ELSE location.Longitude,
     Radius |-> IF req.Radius > 0 THEN req.Radius ELSE location.Radius,
     IsActive |-> IF req.IsActive # <<>> THEN req.IsActive[1]
                  ELSE location.IsActive]

\* no row keeps a location from being deleted
Referenced_None(att, schedules, id) == FALSE

\* ON DELETE RESTRICT of attendances.location_id and
\* user_schedules.location_id: rows that keep a location from being deleted
Referenced(att, schedules, id) ==
    \/ \E i \in 1..Len(att) : att[i].LocationID = id
    \/ \E i \in 1..Len(schedules) : schedules[i].LocationID = id

\* the directory of location administration: fence 1 alone
InitLoc ==
    /\ attendances = <<>>
    /\ locations = (1 :> InitLocations[1])
    /\ now = StartTime
    /\ reqs = <<>>
    /\ probe = [op |-> "", id |-> 0, err |-> NoError]
    /\ users = InitUsers
    /\ userSchedules = <<>>
    /\ locationSeq = 1

\* POST /locations
CreateLocation(req) ==
    /\ locationSeq < MaxLocation
    /\ IF BindCreateLocation(req)
       THEN /\ locationSeq' = locationSeq + 1
            /\ locations' = locations @@ (locationSeq' :> NewLocation(req))
       ELSE UNCHANGED <<locations, locationSeq>>
    /\ UNCHANGED <<attendances, now, reqs, probe, users, userSchedules>>

\* PUT /locations/:id
UpdateLocation(id, req) ==
    /\ IF BindUpdateLocation(req) /\ GetLocationByID(locations, id).err = NoError
       THEN locations' =
                [locations EXCEPT ![id] = UpdatedLocation(locations[id], req)]
       ELSE UNCHANGED locations
    /\ UNCHANGED <<attendances, now, reqs, probe>>
    /\ UNCHANGED directory

\* LocationService.DeleteLocation: the error returned and the directory
\* after the call; the DELETE of a row that attendances or user_schedules
\* reference is refused by the store
DeleteLocationOutcome(locs, att, schedules, id) ==
    IF GetLocationByID(locs, id).err # NoError
    THEN [err |-> GetLocationByID(locs, id).err, locs |-> locs]
    ELSE IF Referenced(att, schedules, id)
    THEN [err |-> ErrStorage, locs |-> locs]
    ELSE [err |-> NoError, locs |-> [l \in DOMAIN locs \ {id} |-> locs[l]]]

\* DELETE /locations/:id; probe keeps the id and the error of the call
DeleteLocation(id) ==
    /\ locations' = DeleteLocationOutcome(locations, attendances,
                                          userSchedules, id).locs
    /\ probe' = [op |-> "DeleteLocation", id |-> id,
                 err |-> DeleteLocationOutcome(locations, attendances,
                                               userSchedules, id).err]
    /\ UNCHANGED <<attendances, now, reqs>>
    /\ UNCHANGED directory

NextLoc ==
    \/ \E req \in CreateLocationRequests : CreateLocation(req)
    \/ \E id \in 1..MaxLocation, req \in UpdateLocationRequests :
           UpdateLocation(id, req)
    \/ \E id \in 1..MaxLocation : DeleteLocation(id)

SpecLoc == InitLoc /\ [][NextLoc]_vars

(***************************************************************************)
(* Attendance under location administration: user 1 checks in and out at   *)
(* fence 1 while the administrator updates and deletes the fences that     *)
(* exist.                                                                   *)
(***************************************************************************)
\* the check-in at the first check-in position, against fence 1
GateCheckInRequests == {CheckInReq(1, -6199730, <<>>, "")}

NextGate ==
    \/ Tick
    \/ \E req \in GateCheckInRequests : CheckIn(1, req)
    \/ \E req \in CheckOutRequests : CheckOut(1, req)
    \/ \E id \in 1..locationSeq, req \in UpdateLocationRequests :
           UpdateLocation(id, req)
    \/ \E id \in 1..locationSeq : DeleteLocation(id)

SpecGate == InitLoc /\ [][NextGate]_vars

(***************************************************************************)
(* Schedule assignment: POST /admin/schedules/assign.  Dates travel as     *)
(* texts of layout 2006-01-02; a parsed date is its day number.            *)
(***************************************************************************)
MaxAssign == 2

\* the date texts the admin sends, in calendar order
DateTexts == <<"2025-01-01", "2025-01-02", "2025-01-03">>

\* parseDate: time.Parse("2006-01-02", dateStr)
parseDate(dateStr) ==
    IF \E d \in 1..Len(DateTexts) : DateTexts[d] = dateStr
    THEN [err |-> NoError,
          date |-> CHOOSE d \in 1..Len(DateTexts) : DateTexts[d] = dateStr]
    ELSE [err |-> "parsing time", date |-> 0]

\* table work_schedules after the seed insert
WorkSchedules == {1}

AssignScheduleReq(userID, scheduleID, effectiveFrom, effectiveTo) ==
    [UserID |-> userID, ScheduleID |-> scheduleID, LocationID |-> 1,
     EffectiveFrom |-> effectiveFrom, EffectiveTo |-> effectiveTo]

\* bodies of POST /admin/schedules/assign: for every user the seed schedule
\* from and to every date, open-ended, or with a date in another layout;
\* a schedule that does not exist; a body without effective_from
AssignScheduleRequests ==
    {AssignScheduleReq(userID, 1, from, to) :
        userID \in Users,
        from \in {DateTexts[d] : d \in 1..Len(DateTexts)},
        to \in {DateTexts[d] : d \in 2..Len(DateTexts)} \cup {""}}
    \cup {AssignScheduleReq(1, 1, "01/02/2025", ""),
          AssignScheduleReq(1, 1, "2025-01-01", "01/03/2025"),
          AssignScheduleReq(1, 2, "2025-01-01", ""),
          AssignScheduleReq(1, 1, "", "")}

\* binding:"required" on user_id, schedule_id, location_id, effective_from
BindAssignSchedule(req) ==
    /\ req.UserID # 0
    /\ req.ScheduleID # 0
    /\ req.LocationID # 0
    /\ req.EffectiveFrom # ""

\* the constraints of table user_schedules on an insert: the foreign keys
\* and UNIQUE(user_id, effective_from)
UserScheduleConstraints(schedules, usrs, locs, row) ==
    /\ row.UserID \in DOMAIN usrs
    /\ row.ScheduleID \in WorkSchedules
    /\ row.LocationID \in DOMAIN locs
    /\ ~\E i \in 1..Len(schedules) :
           /\ schedules[i].UserID = row.UserID
           /\ schedules[i].EffectiveFrom = row.EffectiveFrom

\* ScheduleService.AssignScheduleToUser: the error returned and the table
\* after the call
AssignScheduleToUser(schedules, usrs, locs, req) ==
    LET effectiveFrom == parseDate(req.EffectiveFrom)
        parsed == parseDate(req.EffectiveTo)
        userSchedule ==
            [ID |-> Len(schedules) + 1, UserID |-> req.UserID,
             ScheduleID |-> req.ScheduleID, LocationID |-> req.LocationID,
             EffectiveFrom |-> effectiveFrom.date,
             EffectiveTo |-> IF req.EffectiveTo # "" THEN <<parsed.date>>
                             ELSE <<>>]
    IN  IF req.ScheduleID \notin WorkSchedules
        THEN [err |-> "schedule not found", schedules |-> schedules]
        ELSE IF effectiveFrom.err # NoError
        THEN [err |-> "invalid effective_from date format",
              schedules |-> schedules]
        ELSE IF req.EffectiveTo # "" /\ parsed.err # NoError
        THEN [err |-> "invalid effective_to date format",
              schedules |-> schedules]
        ELSE IF ~UserScheduleConstraints(schedules, usrs, locs, userSchedule)
        THEN [err |-> ErrStorage, schedules |-> schedules]
        ELSE [err |-> NoError, schedules |-> Append(schedules, userSchedule)]

InitSched ==
    /\ attendances = <<>>
    /\ locations = InitLocations
    /\ InitDirectory
    /\ now = StartTime
    /\ reqs = <<>>
    /\ probe = [err |-> NoError]

\* POST /admin/schedules/assign; probe keeps the error of the last call
AssignSchedule(req) ==
    /\ Len(userSchedules) < MaxAssign
    /\ IF BindAssignSchedule(req)
       THEN LET out == AssignScheduleToUser(userSchedules, users, locations,
                                            req)
            IN  /\ userSchedules' = out.schedules
                /\ probe' = [err |-> out.err]
       ELSE /\ probe' = [err |-> "validation"]
            /\ UNCHANGED userSchedules
    /\ UNCHANGED <<attendances, locations, now, reqs, users, locationSeq>>

NextSched == \E req \in AssignScheduleRequests : AssignSchedule(req)

SpecSched == InitSched /\ [][NextSched]_vars

(***************************************************************************)
(* User deletion: DELETE /admin/users/:id.  Every request is served by its *)
(* own worker, as in the concurrent attendance requests; UserService uses  *)
(* no transaction, so the steps of a worker are its storage round trips.   *)
(* The tables that reference users are empty here.                         *)
(***************************************************************************)
ErrUserNotFound == "user not found"
ErrLastAdmin == "cannot delete the last admin user"
ErrOwnAccount == "Cannot delete your own account"

\* the user tables the deletions start from: every assignment of roles to
\* the accounts with at least one admin
UserTables ==
    {[id \in Users |-> [Role |-> role[id], IsActive |-> TRUE]] :
        role \in {r \in [Users -> {"admin", "user"}] :
                     \E id \in Users : r[id] = "admin"}}

\* the rows of table users with role admin
Admins(usrs) == {id \in DOMAIN usrs : usrs[id].Role = "admin"}

\* the worker of a DeleteUser request of the authenticated admin caller
NewDeleteWorker(caller, userID) ==
    [op |-> "DeleteUser", caller |-> caller, userID |-> userID,
     pc |-> "self", role |-> "", adminCount |-> 0, err |-> NoError]

InitUsersConc ==
    /\ attendances = <<>>
    /\ locations = InitLocations
    /\ now = StartTime
    /\ reqs = <<>>
    /\ probe = NoProbe
    /\ users \in UserTables
    /\ userSchedules = <<>>
    /\ locationSeq = 3

\* a request passes AuthMiddleware and AdminMiddleware: the caller is an
\* admin account
SubmitDelete(caller, userID) ==
    /\ Len(reqs) < MaxReq
    /\ caller \in Admins(users)
    /\ reqs' = Append(reqs, NewDeleteWorker(caller, userID))
    /\ UNCHANGED <<attendances, locations, now, probe, users,
                   userSchedules, locationSeq>>

\* UserController.DeleteUser: currentUserID.(uint) == uint(userID)
OwnAccountStep(k) ==
    /\ reqs[k].pc = "self"
    /\ reqs' = [reqs EXCEPT ![k] =
          IF reqs[k].caller = reqs[k].userID
          THEN Finish(@, ErrOwnAccount)
          ELSE [@ EXCEPT !.pc = "get"]]
    /\ UNCHANGED <<attendances, locations, now, probe, users,
                   userSchedules, locationSeq>>

\* UserService.DeleteUser: user, err := s.GetUserByID(userID)
GetUserStep(k) ==
    /\ reqs[k].pc = "get"
    /\ reqs' = [reqs EXCEPT ![k] =
          IF reqs[k].userID \notin DOMAIN users
          THEN Finish(@, ErrUserNotFound)
          ELSE [@ EXCEPT !.role = users[reqs[k].userID].Role,
                         !.pc = IF users[reqs[k].userID].Role = "admin"
                                THEN "count" ELSE "delete"]]
    /\ UNCHANGED <<attendances, locations, now, probe, users,
                   userSchedules, locationSeq>>

\* UserService.DeleteUser: Where("role = ?", "admin").Count(&adminCount)
\* and the test adminCount <= 1
CountAdminsStep(k) ==
    /\ reqs[k].pc = "count"
    /\ LET adminCount == Cardinality(Admins(users))
       IN  reqs' = [reqs EXCEPT ![k] =
              IF adminCount <= 1
              THEN Finish([@ EXCEPT !.adminCount = adminCount], ErrLastAdmin)
              ELSE [@ EXCEPT !.adminCount = adminCount, !.pc = "delete"]]
    /\ UNCHANGED <<attendances, locations, now, probe, users,
                   userSchedules, locationSeq>>

\* UserService.DeleteUser: s.db.Delete(user), a DELETE by primary key
DeleteUserStep(k) ==
    /\ reqs[k].pc = "delete"
    /\ users' = [id \in DOMAIN users \ {reqs[k].userID} |-> users[id]]
    /\ reqs' = [reqs EXCEPT ![k] = Finish(@, NoError)]
    /\ UNCHANGED <<attendances, locations, now, probe, userSchedules,
                   locationSeq>>

NextUsers ==
    \/ \E caller \in Users, userID \in Users : SubmitDelete(caller, userID)
    \/ \E k \in 1..Len(reqs) : OwnAccountStep(k)
    \/ \E k \in 1..Len(reqs) : GetUserStep(k)
    \/ \E k \in 1..Len(reqs) : CountAdminsStep(k)
    \/ \E k \in 1..Len(reqs) : DeleteUserStep(k)

SpecUsers == InitUsersConc /\ [][NextUsers]_vars

(***************************************************************************)
(* Properties.                                                             *)
(***************************************************************************)
\* the ledger rows of userID whose check-in lies on calendar day date
RecordsOn(userID, date) ==
    {i \in 1..Len(attendances) :
        attendances[i].UserID = userID /\ attendances[i].CheckInTime.day = date}

\* location id names a stored, active geofence
ProperFence(id) == id \in DOMAIN locations /\ locations[id].IsActive

\* the point (latitude, longitude) is farther from the centre of fence id
\* than the radius of that fence
Beyond(latitude, longitude, id) ==
    LET d == CalculateDistance(latitude, longitude,
                               locations[id].Latitude, locations[id].Longitude)
    IN  d.num > locations[id].Radius * d.den

\* C1: after any sequence of CheckIn and CheckOut calls the ledger holds at
\* most one record per (user, calendar day), and a CheckIn by a user who has
\* a record for today returns "already checked in today" and leaves the
\* ledger as it was (the existence query itself succeeding).
C1_OneRecordPerUserDay ==
    /\ \A u \in Users, d \in Days : Cardinality(RecordsOn(u, d)) <= 1
    /\ \A u \in Users :
          RecordsOn(u, now.day) # {} =>
             \A req \in CheckInRequests, fail \in CheckInFailures \ {"count"} :
                LET out == CheckInOutcome(attendances, locations, u, req,
                                          now, now, now, fail)
                IN  out.err = ErrAlreadyCheckedIn /\ out.att = attendances

\* a user has checked in today, and the CheckIn they send again from inside
\* the fence is refused
C1_Witness ==
    \E u \in Users :
        /\ Cardinality(RecordsOn(u, now.day)) = 1
        /\ CheckInOutcome(attendances, locations, u,
                          CheckInReq(1, -6199730, <<"in">>, "selfie.jpg"),
                          now, now, now, "none").err = ErrAlreadyCheckedIn

\* C2: with concurrent CheckIn requests the ledger still holds at most one
\* record per (user, calendar day).
C2_UniqueUnderConcurrentCheckIn ==
    \A u \in Users, d \in Days : Cardinality(RecordsOn(u, d)) <= 1

\* C3: CheckOut by a user without a record for today returns "no attendance
\* record found for today"; CheckOut by a user whose record of today has a
\* check-out time returns "already checked out today" and leaves the
\* check-out time, the check-out coordinates and the notes as they were (the
\* lookup query itself succeeding).
C3_CheckOutGuards ==
    \A u \in Users, req \in CheckOutRequests, fail \in CheckOutFailures \ {"first"} :
        LET out == CheckOutOutcome(attendances, locations, u, req, now, now, fail)
            rows == RecordsOn(u, now.day)
        IN  /\ rows = {} => out.err = ErrNoRecordToday
            /\ \A i \in rows :
                  attendances[i].CheckOutTime # <<>> =>
                     /\ out.err = ErrAlreadyCheckedOut
                     /\ out.att[i].CheckOutTime = attendances[i].CheckOutTime
                     /\ out.att[i].CheckOutLatitude = attendances[i].CheckOutLatitude
                     /\ out.att[i].CheckOutLongitude = attendances[i].CheckOutLongitude
                     /\ out.att[i].Notes = attendances[i].Notes

\* a user has checked out today, adding a note, and the CheckOut they send
\* again from inside the fence is refused
C3_Witness ==
    \E u \in Users : \E i \in RecordsOn(u, now.day) :
        /\ attendances[i].CheckOutTime # <<>>
        /\ attendances[i].Notes = <<"in", " | ", "out">>
        /\ CheckOutOutcome(attendances, locations, u,
                           CheckOutReq(-6199730, <<"out">>),
                           now, now, "none").err = ErrAlreadyCheckedOut

\* C4: for a user without a record today and a stored, active geofence, a
\* CheckIn from farther than the radius returns "you are outside the allowed
\* radius" and leaves the ledger as it was; one from within the radius
\* succeeds and adds a row (no storage failure).
C4_GeofenceGate ==
    \A u \in Users, req \in CheckInRequests :
        (RecordsOn(u, now.day) = {} /\ ProperFence(req.LocationID)) =>
           LET out == CheckInOutcome(attendances, locations, u, req,
                                     now, now, now, "none")
           IN  IF Beyond(req.Latitude, req.Longitude, req.LocationID)
               THEN out.err = ErrOutsideCheckIn /\ out.att = attendances
               ELSE out.err = NoError /\ Len(out.att) = Len(attendances) + 1

\* one user has checked in at fence 1 from 30 m, and the CheckIn of another
\* user, who has no record today, from 80 m is refused
C4_Witness ==
    \E u, v \in Users :
        /\ u # v
        /\ RecordsOn(u, now.day) = {}
        /\ \E i \in RecordsOn(v, now.day) :
              /\ attendances[i].LocationID = 1
              /\ attendances[i].DistanceFromLocation <= 50 * 100
        /\ CheckInOutcome(attendances, locations, u,
                          CheckInReq(1, -6199280, <<"in">>, ""),
                          now, now, now, "none").err = ErrOutsideCheckIn

\* C5: CheckOut validates the coordinates against the geofence stored in
\* today's check-in record: for a record that is checked in and whose
\* geofence is stored and active, coordinates outside that geofence give
\* "you are outside the allowed radius for check-out" and leave the ledger
\* as it was, and coordinates inside it check the record out (no storage
\* failure) -- in every state of the day, so also after a refused attempt.
C5_CheckOutAgainstCheckInFence ==
    \A u \in Users, req \in CheckOutRequests :
        \A i \in RecordsOn(u, now.day) :
            (attendances[i].CheckOutTime = <<>>
               /\ ProperFence(attendances[i].LocationID)) =>
               LET out == CheckOutOutcome(attendances, locations, u, req,
                                          now, now, "none")
               IN  IF Beyond(req.Latitude, req.Longitude, attendances[i].LocationID)
                   THEN out.err = ErrOutsideCheckOut /\ out.att = attendances
                   ELSE /\ out.err = NoError
                        /\ out.att[i].CheckOutTime = <<now>>
                        /\ out.att[i].CheckOutLatitude = <<req.Latitude>>

\* a record of fence 2 (its primary key being 1) is checked in, and a
\* CheckOut from a point inside fence 1 but outside fence 2 is refused
C5_Witness ==
    \E u \in Users : \E i \in RecordsOn(u, now.day) :
        /\ attendances[i].CheckOutTime = <<>>
        /\ attendances[i].LocationID = 2
        /\ attendances[i].ID = 1
        /\ ~Beyond(-6199730, 106816700, 1)
        /\ CheckOutOutcome(attendances, locations, u,
                           CheckOutReq(-6199730, <<"out">>),
                           now, now, "none").err = ErrOutsideCheckOut

\* C6: every CheckIn or CheckOut call that returns an error, whichever it
\* is, leaves the ledger exactly as it was before the call.
C6_FailuresLeaveLedger ==
    /\ \A u \in Users, req \in CheckInRequests, fail \in CheckInFailures :
          LET out == CheckInOutcome(attendances, locations, u, req,
                                    now, now, now, fail)
          IN  out.err # NoError => out.att = attendances
    /\ \A u \in Users, req \in CheckOutRequests, fail \in CheckOutFailures :
          LET out == CheckOutOutcome(attendances, locations, u, req,
                                     now, now, fail)
          IN  out.err # NoError => out.att = attendances

\* a record is checked in, and the CheckOut whose db.Save fails returns the
\* storage error
C6_Witness ==
    \E u \in Users : \E i \in RecordsOn(u, now.day) :
        /\ attendances[i].CheckOutTime = <<>>
        /\ attendances[i].LocationID = 1
        /\ CheckOutOutcome(attendances, locations, u,
                           CheckOutReq(-6199730, <<"out">>),
                           now, now, "save").err = ErrStorage

\* C7: the status of a record is one of present, late, half_day from the
\* step that creates it, and no step changes the status of a record.
C7_StatusFixedAtCheckIn ==
    [][/\ \A i \in 1..Len(attendances) :
             /\ i <= Len(attendances')
             /\ attendances'[i].Status = attendances[i].Status
       /\ \A i \in 1..Len(attendances') :
             attendances'[i].Status \in {"present", "late", "half_day"}]_vars

\* a record classified present in the morning was checked out after noon
C7_Witness ==
    \E i \in 1..Len(attendances) :
        /\ attendances[i].Status = "present"
        /\ attendances[i].CheckOutTime # <<>>
        /\ attendances[i].CheckOutTime[1].hour >= 12

C9_ForwardOnly ==
    [][/\ Len(attendances') >= Len(attendances)
       /\ \A i \in 1..Len(attendances) :
             /\ i <= Len(attendances')
             /\ attendances'[i].UserID = attendances[i].UserID
             /\ attendances'[i].CheckInTime = attendances[i].CheckInTime
             /\ attendances[i].CheckOutTime # <<>> =>
                   attendances'[i] = attendances[i]
       /\ \A i \in (Len(attendances) + 1)..Len(attendances') :
             attendances'[i].CheckOutTime = <<>>]_vars

\* a record was checked out earlier today and the clock has moved on
C9_Witness ==
    \E u \in Users : \E i \in RecordsOn(u, now.day) :
        /\ attendances[i].CheckOutTime # <<>>
        /\ attendances[i].CheckOutTime[1] # now
        /\ Len(attendances) = 2

\* C10: with concurrent CheckOut requests, a record that has a check-out
\* time keeps its check-out time, check-out coordinates and notes, and no
\* CheckOut succeeds for a user and day for which one has succeeded.
C10_CheckOutOnceUnderConcurrency ==
    [][/\ \A i \in 1..Len(attendances) :
             attendances[i].CheckOutTime # <<>> =>
                /\ attendances'[i].CheckOutTime = attendances[i].CheckOutTime
                /\ attendances'[i].CheckOutLatitude = attendances[i].CheckOutLatitude
                /\ attendances'[i].CheckOutLongitude = attendances[i].CheckOutLongitude
                /\ attendances'[i].Notes = attendances[i].Notes
       /\ \A k \in 1..Len(reqs) :
             (reqs[k].op = "CheckOut" /\ reqs[k].pc # "done"
                /\ reqs'[k].pc = "done" /\ reqs'[k].err = NoError) =>
                ~ \E j \in 1..Len(reqs) :
                     /\ j # k
                     /\ reqs[j].op = "CheckOut"
                     /\ reqs[j].pc = "done"
                     /\ reqs[j].err = NoError
                     /\ reqs[j].userID = reqs[k].userID
                     /\ reqs[j].today = reqs[k].today]_vars

\* C11: a CheckIn whose insert the store rejects while a record of the same
\* user for today is in the ledger (the request lost a race with a
\* duplicate) returns "already checked in today", not the error of the
\* store.
C11_DuplicateInsertIsAlreadyCheckedIn ==
    [][\A k \in 1..Len(reqs) :
          (/\ reqs[k].op = "CheckIn"
           /\ reqs[k].pc = "create"
           /\ RecordsOn(reqs[k].userID, reqs[k].today) # {}
           /\ reqs'[k].pc = "done"
           /\ attendances' = attendances) =>
             reqs'[k].err = ErrAlreadyCheckedIn]_vars

\* C12: for a user without a record today, a CheckIn naming a geofence id
\* that is not in the directory returns "location not found" and one naming
\* a stored geofence that is not active returns "location is not active",
\* from any of the coordinates the clients send (the centre of the geofence
\* among them), and the ledger stays as it was.
C12_UnknownOrInactiveFence ==
    \A u \in Users, req \in CheckInRequests, other \in CheckInRequests :
        RecordsOn(u, now.day) = {} =>
           LET out == CheckInOutcome(attendances, locations, u,
                                     [req EXCEPT !.Latitude = other.Latitude],
                                     now, now, now, "none")
           IN  /\ req.LocationID \notin DOMAIN locations =>
                    out.err = ErrLocationNotFound /\ out.att = attendances
               /\ (req.LocationID \in DOMAIN locations
                     /\ ~locations[req.LocationID].IsActive) =>
                    out.err = ErrLocationInactive /\ out.att = attendances

\* one user has checked in; another, without a record today, is refused at
\* the centre of the missing geofence 4 and at the centre of the inactive
\* geofence 3
C12_Witness ==
    \E u, v \in Users :
        /\ u # v
        /\ RecordsOn(v, now.day) # {}
        /\ RecordsOn(u, now.day) = {}
        /\ CheckInOutcome(attendances, locations, u,
                          CheckInReq(4, -6200000, <<>>, ""),
                          now, now, now, "none").err = ErrLocationNotFound
        /\ locations[3].Latitude = -6200000
        /\ CheckInOutcome(attendances, locations, u,
                          CheckInReq(3, -6200000, <<>>, ""),
                          now, now, now, "none").err = ErrLocationInactive

\* s is a prefix of t
IsPrefix(s, t) == Len(s) <= Len(t) /\ SubSeq(t, 1, Len(s)) = s

\* C13: a successful CheckOut leaves in every record notes that begin with
\* the notes the record had (those stored at check-in); in the record it
\* checks out, a non-empty note of the request follows the old notes and the
\* separator " | " when the old notes are non-empty, is the notes when they
\* are empty, and an empty note of the request changes nothing.  Every
\* check-out point is tried with each of the notes the clients send.
C13_NotesAppendOnly ==
    \A u \in Users, req \in CheckOutRequests, noted \in CheckOutRequests :
        LET out == CheckOutOutcome(attendances, locations, u,
                                   [req EXCEPT !.Notes = noted.Notes],
                                   now, now, "none")
        IN  out.err = NoError =>
               /\ Len(out.att) = Len(attendances)
               /\ \A i \in 1..Len(attendances) :
                     LET old == attendances[i].Notes
                         new == out.att[i].Notes
                     IN  /\ IsPrefix(old, new)
                         /\ i \notin RecordsOn(u, now.day) => new = old
                         /\ i \in RecordsOn(u, now.day) =>
                               /\ (noted.Notes # <<>> /\ old # <<>>) =>
                                     new = old \o <<" | ">> \o noted.Notes
                               /\ (noted.Notes # <<>> /\ old = <<>>) =>
                                     new = noted.Notes
                               /\ noted.Notes = <<>> => new = old

\* one record was checked out with a note after its check-in notes and the
\* separator; another, checked in without notes, takes the note of a
\* CheckOut as its notes, and keeps its empty notes on one without a note
C13_Witness ==
    \E i, j \in 1..Len(attendances) :
        /\ attendances[i].CheckOutTime # <<>>
        /\ attendances[i].Notes = <<"in", " | ", "out">>
        /\ attendances[j].CheckOutTime = <<>>
        /\ attendances[j].Notes = <<>>
        /\ attendances[j].CheckInTime.day = now.day
        /\ LET u == attendances[j].UserID
               noted == CheckOutOutcome(attendances, locations, u,
                                        CheckOutReq(-6199280, <<"out">>),
                                        now, now, "none")
               plain == CheckOutOutcome(attendances, locations, u,
                                        CheckOutReq(-6199280, <<>>),
                                        now, now, "none")
           IN  /\ noted.err = NoError /\ noted.att[j].Notes = <<"out">>
               /\ plain.err = NoError /\ plain.att[j].Notes = <<>>

\* C14: the result of the validation is true exactly when the distance it
\* returns is at most the radius: a point at distance exactly the radius is
\* accepted, a point one metre or more beyond it is rejected.
C14_InclusiveRadius ==
    probe.done =>
       /\ probe.isValid <=> probe.distance.num <= probe.radius * probe.distance.den
       /\ probe.distance.num = probe.radius * probe.distance.den => probe.isValid
       /\ probe.distance.num >= (probe.radius + 1) * probe.distance.den =>
             ~probe.isValid

\* a point at the centre was validated against radius 0: the distance is
\* exactly the radius, and the point is accepted
C14_Witness ==
    /\ probe.done
    /\ probe.offset = 0
    /\ probe.radius = 0
    /\ probe.distance.num = probe.radius * probe.distance.den
    /\ probe.isValid

\* C15: a successful CheckIn adds exactly one row and changes no other; the
\* row has no check-out time or coordinates and carries the caller's user
\* id, the geofence id and coordinates of the request and the distance
\* computed from them; and every row of the ledger has a stored distance of
\* at most the radius of its geofence.
C15_OneRowWithinRadius ==
    /\ \A u \in Users, req \in CheckInRequests :
          LET out == CheckInOutcome(attendances, locations, u, req,
                                    now, now, now, "none")
              row == out.att[Len(out.att)]
          IN  out.err = NoError =>
                 /\ Len(out.att) = Len(attendances) + 1
                 /\ \A i \in 1..Len(attendances) : out.att[i] = attendances[i]
                 /\ row.UserID = u
                 /\ row.LocationID = req.LocationID
                 /\ row.CheckInLatitude = req.Latitude
                 /\ row.CheckInLongitude = req.Longitude
                 /\ row.CheckOutTime = <<>>
                 /\ row.CheckOutLatitude = <<>>
                 /\ row.CheckOutLongitude = <<>>
                 /\ row.DistanceFromLocation =
                       Decimal2(CalculateDistance(req.Latitude, req.Longitude,
                                   locations[req.LocationID].Latitude,
                                   locations[req.LocationID].Longitude))
    /\ \A i \in 1..Len(attendances) :
          /\ attendances[i].LocationID \in DOMAIN locations
          /\ attendances[i].DistanceFromLocation <=
                locations[attendances[i].LocationID].Radius * 100

\* one user has checked in 31 m from the centre of fence 2 and still is
\* checked in, and a CheckIn of another user now adds a second row
C15_Witness ==
    \E i \in 1..Len(attendances) : \E u \in Users :
        /\ attendances[i].LocationID = 2
        /\ attendances[i].CheckInLatitude = -6199280
        /\ attendances[i].DistanceFromLocation > 3000
        /\ attendances[i].DistanceFromLocation <= 5000
        /\ attendances[i].CheckOutTime = <<>>
        /\ u # attendances[i].UserID
        /\ LET out == CheckInOutcome(attendances, locations, u,
                                     CheckInReq(1, -6199730, <<"in">>, "selfie.jpg"),
                                     now, now, now, "none")
           IN  out.err = NoError /\ Len(out.att) = Len(attendances) + 1

\* C16: GetAttendanceStatus returns no error, whatever the store does; for a
\* user without a record today its payload has has_checked_in = false,
\* has_checked_out = false and a message, and for a user with a record
\* today it has has_checked_in = true and has_checked_out true exactly when
\* the record has a check-out time.
C16_StatusNeverFails ==
    \A u \in Users, fail \in StatusFailures :
        LET st == GetAttendanceStatus(attendances, u, now, fail)
            rows == RecordsOn(u, now.day)
        IN  /\ st.err = NoError
            /\ rows = {} =>
                  /\ ~st.has_checked_in
                  /\ ~st.has_checked_out
                  /\ st.message # ""
            /\ rows # {} =>
                  /\ st.has_checked_in
                  /\ st.has_checked_out <=>
                        \E i \in rows : attendances[i].CheckOutTime # <<>>

\* C17: in every ledger the sequential calls reach, HasCheckedInToday(u) is
\* true exactly when the ledger has a record of u for today,
\* GetTodayAttendance(u) finds no record exactly when HasCheckedInToday(u) is
\* false, and the record it finds otherwise is one of u checked in today
\* (the queries themselves succeeding).
C17_ReadPathsAgree ==
    \A u \in Users :
        LET i == GetTodayAttendance(attendances, u, now)
        IN  /\ HasCheckedInToday(attendances, u, now) <=> RecordsOn(u, now.day) # {}
            /\ i = 0 <=> ~HasCheckedInToday(attendances, u, now)
            /\ i # 0 =>
                  /\ i \in 1..Len(attendances)
                  /\ attendances[i].UserID = u
                  /\ attendances[i].CheckInTime.day = now.day

\* one user checked in yesterday and not today, another checked in today:
\* the first has no record today, the second's record is found
C17_Witness ==
    \E u, v \in Users :
        /\ \E d \in Days : d < now.day /\ RecordsOn(u, d) # {}
        /\ RecordsOn(u, now.day) = {}
        /\ ~HasCheckedInToday(attendances, u, now)
        /\ GetTodayAttendance(attendances, u, now) = 0
        /\ RecordsOn(v, now.day) # {}
        /\ HasCheckedInToday(attendances, v, now)
        /\ GetTodayAttendance(attendances, v, now) \in RecordsOn(v, now.day)

\* C18: a history request that is answered (its queries succeeding) has an
\* effective limit L of 1..100 and page p >= 1, and over a user with T
\* records its envelope has total = T, total_page = the least number of
\* pages of L that hold T records, and min(L, max(0, T - (p-1)*L)) records
\* in data.
C18_HistoryEnvelope ==
    (probe.done /\ probe.op = "history" /\ probe.fail = "none") =>
       LET L == probe.resp.limit
           p == probe.resp.page
           T == Cardinality({i \in 1..Len(attendances) :
                                attendances[i].UserID = probe.userID})
           rest == IF T - (p - 1) * L > 0 THEN T - (p - 1) * L ELSE 0
       IN  /\ L \in 1..100
           /\ p >= 1
           /\ probe.resp.code = StatusOK
           /\ probe.resp.total = T
           /\ probe.resp.total_page * L >= T
           /\ (probe.resp.total_page - 1) * L < T
           /\ probe.resp.total_page >= 0
           /\ Len(probe.resp.data) = IF L < rest THEN L ELSE rest

\* limit 10 over 25 records: three pages, and page 3 holds 5 records
C18_Witness ==
    /\ probe.done
    /\ probe.op = "history"
    /\ probe.fail = "none"
    /\ probe.limit = QueryText(<<"1", "0">>)
    /\ probe.page = QueryText(<<"3">>)
    /\ probe.resp.total = 25
    /\ probe.resp.limit = 10
    /\ probe.resp.total_page = 3
    /\ Len(probe.resp.data) = 5

\* the number a limit or page parameter of the request stands for, as the
\* handler reads it (the endpoint's default when the parameter is absent)
Requested(q, defaultValue) == Atoi(DefaultQuery(q, defaultValue))

\* C19 as stated: both listings use a requested limit below 1 as 1, one
\* above 100 as 100, one within 1..100 as given, and a page below 1 as 1.
C19_LimitClamped ==
    probe.done =>
       LET limit == Requested(probe.limit,
                              IF probe.op = "history" THEN <<"1", "0">>
                              ELSE <<"2", "0">>)
           page == Requested(probe.page, <<"1">>)
       IN  /\ limit < 1 => probe.resp.limit = 1
           /\ limit > 100 => probe.resp.limit = 100
           /\ limit \in 1..100 => probe.resp.limit = limit
           /\ page < 1 => probe.resp.page = 1

\* C19 as the code has it: both listings replace a requested limit below 1
\* or above 100 by the endpoint's default (10 for the history, 20 for the
\* admin list) and use one within 1..100 as given, so the limit used is
\* always in 1..100; a page below 1 is used as 1 and any other as given.
C19_LimitDefaulted ==
    probe.done =>
       LET defaultLimit == IF probe.op = "history" THEN 10 ELSE 20
           limit == Requested(probe.limit,
                              IF probe.op = "history" THEN <<"1", "0">>
                              ELSE <<"2", "0">>)
           page == Requested(probe.page, <<"1">>)
       IN  /\ (limit < 1 \/ limit > 100) => probe.resp.limit = defaultLimit
           /\ limit \in 1..100 => probe.resp.limit = limit
           /\ probe.resp.limit \in 1..100
           /\ page < 1 => probe.resp.page = 1
           /\ page >= 1 => probe.resp.page = page

\* the admin list was asked for limit 101 and page 0 and answered with
\* limit 20 and page 1
C19_Witness ==
    /\ probe.done
    /\ probe.op = "all"
    /\ probe.limit = QueryText(<<"1", "0", "1">>)
    /\ probe.page = QueryText(<<"0">>)
    /\ probe.resp.limit = 20
    /\ probe.resp.page = 1

\* the errors of the business rules
BusinessErrors ==
    {ErrAlreadyCheckedIn, ErrAlreadyCheckedOut, ErrNoRecordToday,
     ErrLocationNotFound, ErrLocationInactive, ErrOutsideCheckIn,
     ErrOutsideCheckOut}

\* C20: of the failing CheckIn and CheckOut calls, those failing with an
\* error of the business rules, and only those, are answered as client
\* errors (4xx); a call failing on a storage round trip is answered as a
\* server error.
C20_StorageFailuresDistinct ==
    /\ \A u \in Users, req \in CheckInRequests, fail \in CheckInFailures :
          LET out == CheckInOutcome(attendances, locations, u, req,
                                    now, now, now, fail)
              code == CheckInResponse(out.err)
          IN  out.err # NoError =>
                 /\ code \in 400..499 <=> out.err \in BusinessErrors
                 /\ out.err = ErrStorage => code >= 500
    /\ \A u \in Users, req \in CheckOutRequests, fail \in CheckOutFailures :
          LET out == CheckOutOutcome(attendances, locations, u, req,
                                     now, now, fail)
              code == CheckOutResponse(out.err)
          IN  out.err # NoError =>
                 /\ code \in 400..499 <=> out.err \in BusinessErrors
                 /\ out.err = ErrStorage => code >= 500

\* C21: after any sequence of location creations and updates every stored
\* geofence has a radius above zero, and an update whose radius is absent,
\* zero or negative leaves the stored radius as it was, whether or not the
\* binding lets the body through.
C21_RadiusPositive ==
    \A id \in DOMAIN locations :
        /\ locations[id].Radius > 0
        /\ \A req \in UpdateLocationRequests :
               req.Radius <= 0 =>
                   /\ ~BindUpdateLocation(req)
                   /\ UpdatedLocation(locations[id], req).Radius =
                          locations[id].Radius

\* a fence was created with a valid body and fence 1 was shrunk by an update
C21_Witness ==
    /\ 2 \in DOMAIN locations
    /\ locations[2].Radius = 10
    /\ locations[1].Radius = 20

\* the assignment row covers the day: effectiveFrom <= day < effectiveTo,
\* an absent effectiveTo being open-ended
Covers(row, day) ==
    /\ row.EffectiveFrom <= day
    /\ (row.EffectiveTo = <<>> \/ day < row.EffectiveTo[1])

\* C22: at most one schedule assignment covers a given user on a given
\* calendar day: the intervals [effectiveFrom, effectiveTo) of one user's
\* assignments never overlap.
C22_AssignmentsDisjoint ==
    \A i, j \in 1..Len(userSchedules) :
        (i # j /\ userSchedules[i].UserID = userSchedules[j].UserID) =>
            ~\E day \in 1..Len(DateTexts) :
                /\ Covers(userSchedules[i], day)
                /\ Covers(userSchedules[j], day)

RECURSIVE DurationValue(_, _, _)
\* the seconds a duration text stands for: each run of digits times its unit
DurationValue(s, digits, total) ==
    IF s = <<>> THEN total
    ELSE IF IsDigit(Head(s))
    THEN DurationValue(Tail(s), Append(digits, Head(s)), total)
    ELSE DurationValue(Tail(s), <<>>,
             total + ParseDigits(digits, 0) *
                 (IF Head(s) = "h" THEN 3600
                  ELSE IF Head(s) = "m" THEN 60 ELSE 1))

\* C24: the response of a record contains work_duration exactly when the
\* record has a check-out timestamp next to its check-in timestamp, and the
\* value is the check-out time minus the check-in time truncated to whole
\* minutes.
C24_WorkDuration ==
    probe.done =>
        /\ (probe.resp.WorkDuration # <<>>) <=> (probe.row.CheckOutTime # <<>>)
        /\ probe.row.CheckOutTime # <<>> =>
               DurationValue(probe.resp.WorkDuration[1], <<>>, 0) =
                   (Sub(probe.row.CheckOutTime[1], probe.row.CheckInTime)
                        \div 60) * 60

\* a record checked out 8 h 59 min 58 s after its check-in was answered
C24_Witness ==
    /\ probe.done
    /\ probe.row.CheckOutTime # <<>>
    /\ Sub(probe.row.CheckOutTime[1], probe.row.CheckInTime) = 32398
    /\ probe.resp.WorkDuration =
           <<(<<"8", "h", "5", "9", "m", "0", "s">>)>>

\* the columns of a ledger row that a check-out does not set
FixedColumns ==
    {"ID", "UserID", "LocationID", "CheckInTime", "CheckInLatitude",
     "CheckInLongitude", "DistanceFromLocation", "Status", "PhotoURL"}

\* C25: a successful CheckOut changes only the check-out timestamp, the
\* check-out coordinates and the notes of the caller's record for today;
\* the other columns of that record and every other record of the ledger
\* are as before the call.
C25_CheckOutTouchesOwnRecord ==
    \A u \in Users, req \in CheckOutRequests :
        LET out == CheckOutOutcome(attendances, locations, u, req,
                                   now, now, "none")
        IN  out.err = NoError =>
              /\ Len(out.att) = Len(attendances)
              /\ \A i \in 1..Len(attendances) :
                    /\ i \notin RecordsOn(u, now.day) =>
                          out.att[i] = attendances[i]
                    /\ DOMAIN out.att[i] = DOMAIN attendances[i]
                    /\ \A c \in FixedColumns :
                          out.att[i][c] = attendances[i][c]
              /\ \E i \in RecordsOn(u, now.day) :
                    out.att[i].CheckOutTime = <<now>>

\* the ledger holds the open record of one user in row 2 behind another
\* user's record, and the CheckOut of that user succeeds
C25_Witness ==
    \E u \in Users, req \in CheckOutRequests :
        /\ Len(attendances) >= 2
        /\ RecordsOn(u, now.day) = {2}
        /\ attendances[1].UserID # u
        /\ CheckOutOutcome(attendances, locations, u, req,
                           now, now, "none").err = NoError

\* the directory as it is, with fence id deactivated, and with fence id
\* removed
DirectoriesAround(id) ==
    IF id \in DOMAIN locations
    THEN {locations,
          [locations EXCEPT ![id].IsActive = FALSE],
          [l \in DOMAIN locations \ {id} |-> locations[l]]}
    ELSE {locations}

\* C26: CheckIn and CheckOut report the first failing condition in a fixed
\* order.  CheckIn: already checked in, then location not found, then
\* location not active, then outside the radius.  CheckOut: no record
\* today, then already checked out, then the conditions of the geofence in
\* the same order.  A user with a record today is told "already checked in"
\* and a checked-out user "already checked out" whatever fence and
\* coordinates are sent and whatever the state of the fence.
C26_ErrorOrder ==
    /\ \A u \in Users, req \in CheckInRequests, other \in CheckInRequests :
          LET id == req.LocationID
              inReq == [req EXCEPT !.Latitude = other.Latitude]
          IN  \A locs \in DirectoriesAround(id) :
                 LET err == CheckInOutcome(attendances, locs, u, inReq,
                                           now, now, now, "none").err
                 IN  IF RecordsOn(u, now.day) # {}
                     THEN err = ErrAlreadyCheckedIn
                     ELSE IF id \notin DOMAIN locs
                     THEN err = ErrLocationNotFound
                     ELSE IF ~locs[id].IsActive
                     THEN err = ErrLocationInactive
                     ELSE Beyond(inReq.Latitude, inReq.Longitude, id) =>
                              err = ErrOutsideCheckIn
    /\ \A outReq \in CheckOutRequests, i \in 1..Len(attendances) :
          \A locs \in DirectoriesAround(attendances[i].LocationID) :
             LET fence == attendances[i].LocationID
                 err == CheckOutOutcome(attendances, locs,
                                        attendances[i].UserID, outReq,
                                        now, now, "none").err
             IN  IF attendances[i].CheckInTime.day # now.day
                 THEN RecordsOn(attendances[i].UserID, now.day) = {} =>
                          err = ErrNoRecordToday
                 ELSE IF attendances[i].CheckOutTime # <<>>
                 THEN err = ErrAlreadyCheckedOut
                 ELSE IF fence \notin DOMAIN locs
                 THEN err = ErrLocationNotFound
                 ELSE IF ~locs[fence].IsActive
                 THEN err = ErrLocationInactive
                 ELSE Beyond(outReq.Latitude, outReq.Longitude, fence)
                          => err = ErrOutsideCheckOut
    /\ \A u \in Users, outReq \in CheckOutRequests :
          RecordsOn(u, now.day) = {} =>
              CheckOutOutcome(attendances, locations, u, outReq,
                              now, now, "none").err = ErrNoRecordToday

\* a user has checked out today at a fence that was then deactivated; the
\* user is told "already checked in" at a fence that does not exist and
\* "already checked out" from outside the radius
C26_Witness ==
    \E u \in Users :
        /\ \E i \in RecordsOn(u, now.day) :
              /\ attendances[i].CheckOutTime # <<>>
              /\ attendances[i].LocationID \in DOMAIN locations
              /\ ~locations[attendances[i].LocationID].IsActive
        /\ 2 \notin DOMAIN locations
        /\ CheckInOutcome(attendances, locations, u,
                          CheckInReq(2, -6200000, <<>>, ""),
                          now, now, now, "none").err = ErrAlreadyCheckedIn
        /\ CheckOutOutcome(attendances, locations, u,
                           CheckOutReq(-6199280, <<>>),
                           now, now, "none").err = ErrAlreadyCheckedOut

\* the ledger rows that are checked in today and not checked out
OpenToday ==
    {i \in 1..Len(attendances) :
        /\ attendances[i].CheckInTime.day = now.day
        /\ attendances[i].CheckOutTime = <<>>}

C28_NoCheckOutAfterDayEnd ==
    [][\A i \in 1..Len(attendances) :
          (/\ attendances[i].CheckInTime.day < now.day
           /\ attendances[i].CheckOutTime = <<>>) =>
              /\ Len(attendances') >= i
              /\ attendances'[i].CheckOutTime = <<>>]_vars

\* C29: for every record created by CheckIn the stored status is the
\* classification of the hour of the stored check-in timestamp, and the
\* stored check-in timestamp lies on the calendar day for which the call
\* looked for an existing record, also when the clock advances between the
\* clock reads of the call.
C29_StatusMatchesTimestamp ==
    \A k \in 1..Len(reqs) :
        (reqs[k].op = "CheckIn" /\ reqs[k].pc = "done"
           /\ reqs[k].err = NoError) =>
            /\ reqs[k].attendance.Status =
                   determineAttendanceStatus(reqs[k].attendance.CheckInTime)
            /\ DateOf(reqs[k].attendance.CheckInTime) = reqs[k].today

\* C30: starting from a user table with at least one admin, after any
\* interleaving of DeleteUser requests at least one user with role admin
\* is still in the table.
C30_AnAdminRemains == Admins(users) # {}

====
